---- MODULE Spec2Model ----
(***************************************************************************)
(* countme: process-wide counting of live / total / max_live instances.    *)
(*                                                                         *)
(* The model follows src/src/imp.rs and src/src/lib.rs.  Every access to   *)
(* shared memory (an atomic of a Store, the ENABLE flag, the DashMap) is   *)
(* one step of the thread performing it; accesses to the thread's own      *)
(* LOCAL map are folded into the neighbouring step of the same thread.     *)
(* The variable h is the history of the callers (which guards exist, who   *)
(* made them): it decides which calls can be made next and is what the     *)
(* properties compare the counters with; the modelled code never reads it. *)
(***************************************************************************)
EXTENDS Integers, Sequences, FiniteSets, TLC

\* ---------------------------------------------------------------- bounds
\* Threads of the process (thread 1 is the main thread); operations (new,
\* drop, get, get_all) started in a run where spawned threads take part;
\* operations started in a run of the main thread alone.
NumThreads == 2
MaxOps == 4
MaxSeqOps == 7
\* Operations started in a run under fair scheduling.
MaxFairOps == 3

\* usize is modelled UsizeBits wide (the narrowest pointer width Rust has),
\* so that a fetch_sub below zero wraps as it does on the real targets.
UsizeBits == 16
UsizeMod == 2 ^ UsizeBits

Threads == 1 .. NumThreads
\* TypeId keys.  The DashMap iterates in TypeOrder (hash order), which is
\* not the order of the names.
Types == {1, 2}
TypeOrder == <<1, 2>>
\* Option::None of a lookup: no Arc<Store>.
NoStore == 0

\* type_name::<T>() as a string of character codes: "Foo" and "Bar".
TypeName(key) == IF key = 1 THEN <<70, 111, 111>> ELSE <<66, 97, 114>>

\* Store::default(): #[derive(Default)] gives zero counters and name "".
StoreDefault == [total |-> 0, max_live |-> 0, live |-> 0, name |-> <<>>]

\* Arc::new(Store { name, ..Store::default() })
StoreNamed(name) == [StoreDefault EXCEPT !.name = name]

\* Counts::default()
CountsDefault == [total |-> 0, max_live |-> 0, live |-> 0]

VARIABLES
    ENABLE,     \* static ENABLE: AtomicBool
    MAP,        \* global_store(): TypeId -> Arc<Store> (NoStore: no entry)
    local,      \* thread_local! LOCAL: per thread, TypeId -> Arc<Store>
    stores,     \* the heap of Store cells; an Arc<Store> is an index into it
    sameShard,  \* whether the two keys hash to the same DashMap shard
    pc,         \* per thread: where it is inside its current operation
    reg,        \* per thread: the locals of its current operation
    ret,        \* per thread: what its get / get_all is returning
    h           \* history of the callers' guards (not read by the code)

vars == <<ENABLE, MAP, local, stores, sameShard, pc, reg, ret, h>>

\* ------------------------------------------------------- atomics (usize)
FetchAdd(x, n) == (x + n) % UsizeMod

\* fetch_add where fetch_sub was meant.
FetchSubAdds(x, n) == (x + n) % UsizeMod

FetchSub(x, n) == (x - n + UsizeMod) % UsizeMod

\* fetch_min where fetch_max was meant.
FetchMin(x, v) == IF v < x THEN v ELSE x

\* A plain store where fetch_max was meant: the last writer wins.
StoreLast(x, v) == v

FetchMax(x, v) == IF v > x THEN v ELSE x

\* ------------------------------------------------------------ the flag
\* The flag is never consulted.
enabledAlways == TRUE

enabled == ENABLE

\* --------------------------------------------------------- local / MAP
\* A lookup that ignores the key: any cached cell is taken for it.
LocalGetAny(t, key) ==
    IF \E k \in Types : local[t][k] # NoStore
    THEN local[t][CHOOSE k \in Types : local[t][k] # NoStore]
    ELSE NoStore

\* local.borrow().get(&key)
LocalGet(t, key) == local[t][key]

\* global.get(&key)
GlobalGet(key) == MAP[key]

\* A plain insert in place of the entry API: the last writer wins.
OrInsertBlind(key, cell) ==
    [map |-> [MAP EXCEPT ![key] = Len(stores) + 1],
     heap |-> Append(stores, cell),
     id |-> Len(stores) + 1,
     made |-> TRUE]

\* An entry API that ignores the key: whatever cell the registry already
\* holds is taken for it.
OrInsertAny(key, cell) ==
    IF \E k \in Types : MAP[k] # NoStore
    THEN [map |-> [MAP EXCEPT ![key] =
                      MAP[CHOOSE k \in Types : MAP[k] # NoStore]],
          heap |-> stores,
          id |-> MAP[CHOOSE k \in Types : MAP[k] # NoStore],
          made |-> FALSE]
    ELSE [map |-> [MAP EXCEPT ![key] = Len(stores) + 1],
          heap |-> Append(stores, cell),
          id |-> Len(stores) + 1,
          made |-> TRUE]

\* global.entry(key).or_insert_with(|| cell) and .or_default(): under the
\* shard's write lock, the cell is allocated only when the key is vacant.
OrInsertWith(key, cell) ==
    IF MAP[key] # NoStore
    THEN [map |-> MAP, heap |-> stores, id |-> MAP[key], made |-> FALSE]
    ELSE [map |-> [MAP EXCEPT ![key] = Len(stores) + 1],
          heap |-> Append(stores, cell),
          id |-> Len(stores) + 1,
          made |-> TRUE]

\* ------------------------------------------------- DashMap shard locks
Shard(key) == IF sameShard THEN 1 ELSE key

StorePcs == {"st_total", "st_live", "st_max"}
ReadPcs == {"rd_total", "rd_max", "rd_live"}

\* The Ref of do_inc's global.get kept alive into the None arm, across
\* global.entry(key).
HoldsReadLate(t, s) ==
    /\ Shard(reg[t].key) = s
    /\ \/ pc[t] \in StorePcs /\ reg[t].path \in {"global", "slow"}
       \/ pc[t] \in ReadPcs /\ reg[t].op = "get_all"
       \/ pc[t] = "inc_entry"

\* A Ref (global.get, a downgraded entry, an iterator item) is alive.
HoldsRead(t, s) ==
    /\ Shard(reg[t].key) = s
    /\ \/ pc[t] \in StorePcs /\ reg[t].path \in {"global", "slow"}
       \/ pc[t] \in ReadPcs /\ reg[t].op = "get_all"

\* The RefMut of do_get's entry().or_default() is alive during read().
HoldsWrite(t, s) ==
    /\ Shard(reg[t].key) = s
    /\ pc[t] \in ReadPcs /\ reg[t].op = "get"

CanRead(t, key) == \A u \in Threads \ {t} : ~HoldsWrite(u, Shard(key))

CanWrite(t, key) ==
    \A u \in Threads \ {t} :
        ~HoldsWrite(u, Shard(key)) /\ ~HoldsRead(u, Shard(key))

\* ------------------------------------------------------------- sorting
RECURSIVE LexLeq(_, _)
\* <= on &'static str
LexLeq(a, b) ==
    IF a = <<>> THEN TRUE
    ELSE IF b = <<>> THEN FALSE
    ELSE IF Head(a) # Head(b) THEN Head(a) < Head(b)
    ELSE LexLeq(Tail(a), Tail(b))

RECURSIVE InsertSorted(_, _)
InsertSorted(e, s) ==
    IF s = <<>> THEN <<e>>
    ELSE IF LexLeq(Head(s)[1], e[1]) THEN <<Head(s)>> \o InsertSorted(e, Tail(s))
    ELSE <<e>> \o s

RECURSIVE SortByKey(_)
\* entries.sort_by_key(|(name, _counts)| *name): a stable sort
SortByKey(s) ==
    IF s = <<>> THEN <<>>
    ELSE InsertSorted(s[Len(s)], SortByKey(SubSeq(s, 1, Len(s) - 1)))

\* ----------------------------------------------------------- the state
\* The locals of one operation.  op: which public operation; seen: what
\* enabled() returned; path: which branch of do_inc / do_dec was taken;
\* store: the Arc<Store> in hand; live: the result of live.fetch_add + 1;
\* rt, rm: the loads of read() so far; cursor, acc: the iterator and the Vec
\* of get_all.  dT, dL, dM: the writes this operation has made to its cell
\* (total added, live added, max_live raised).  counted: whether the guard
\* being dropped was constructed while counting was enabled (history).
RegIdle ==
    [op |-> "none", key |-> 1, seen |-> TRUE, path |-> "none",
     store |-> NoStore, live |-> 0, rt |-> 0, rm |-> 0,
     cursor |-> 0, acc |-> <<>>, dT |-> 0, dL |-> 0, dM |-> 0,
     counted |-> FALSE]

RetNone == [counts |-> CountsDefault, entries |-> <<>>]

Zeros == [k \in Types |-> 0]

\* History of the callers: ops: operations started; threads: the threads
\* that started them; made[t][k]: counted
\* constructions of k by t; held[t][k]: counted guards of k made by t and
\* not yet dropped; uncounted[k]: live guards made while disabled; gone[k]:
\* counted guards dropped; trueLive[k]: counted guards between the point
\* their construction took effect and the point their destruction did;
\* peak[k]: the largest trueLive[k] so far; clean[k]: every new and drop of
\* k saw counting enabled; moved[k]: a guard of k was dropped by another
\* thread than its maker; nad[k]: a construction of k took effect after a
\* destruction of k; cells[k]: Store cells allocated for k.
HistInit ==
    [ops |-> 0, threads |-> {},
     made |-> [t \in Threads |-> Zeros],
     held |-> [t \in Threads |-> Zeros],
     uncounted |-> Zeros, gone |-> Zeros,
     trueLive |-> Zeros, peak |-> Zeros,
     clean |-> [k \in Types |-> TRUE],
     moved |-> [k \in Types |-> FALSE],
     nad |-> [k \in Types |-> FALSE],
     cells |-> Zeros]

\* ENABLE starts as cfg!(feature = "print_at_exit"): either, by the build.
Init ==
    /\ ENABLE \in BOOLEAN
    /\ MAP = [k \in Types |-> NoStore]
    /\ local = [t \in Threads |-> [k \in Types |-> NoStore]]
    /\ stores = <<>>
    /\ sameShard \in BOOLEAN
    /\ pc = [t \in Threads |-> "idle"]
    /\ reg = [t \in Threads |-> RegIdle]
    /\ ret = [t \in Threads |-> RetNone]
    /\ h = HistInit

\* What get would read of key now: the cell's counters, zeros if no cell.
Snapshot(key) ==
    IF MAP[key] = NoStore THEN CountsDefault
    ELSE [total |-> stores[MAP[key]].total,
          max_live |-> stores[MAP[key]].max_live,
          live |-> stores[MAP[key]].live]

Max(a, b) == IF a > b THEN a ELSE b

\* Thread t may start one more operation within the bounds.
MayStart(t) ==
    /\ pc[t] = "idle"
    /\ h.ops < (IF t = 1 /\ h.threads \subseteq {1} THEN MaxSeqOps ELSE MaxOps)

\* The history after thread t has started an operation.
Started(t) == [h EXCEPT !.ops = @ + 1, !.threads = @ \cup {t}]

\* ------------------------------------------------------------- enable
\* pub fn enable(yes): ENABLE.store(yes, Relaxed)
Enable(t, yes) ==
    /\ pc[t] = "idle"
    /\ ENABLE' = yes
    /\ UNCHANGED <<MAP, local, stores, sameShard, pc, reg, ret, h>>

\* --------------------------------------------- Count::new / inc / do_inc
\* Count::new -> imp::inc: the enabled() load and, when it is true, the
\* fast-path lookup of do_inc in this thread's LOCAL.
New(t, k) ==
    /\ MayStart(t)
    /\ IF enabled
       THEN /\ reg' = [reg EXCEPT ![t] =
                  [RegIdle EXCEPT !.op = "new", !.key = k,
                      !.store = LocalGet(t, k),
                      !.path = IF LocalGet(t, k) # NoStore
                               THEN "fast" ELSE "none"]]
            /\ pc' = [pc EXCEPT ![t] =
                  IF LocalGet(t, k) # NoStore THEN "st_total" ELSE "inc_get"]
            /\ h' = Started(t)
       ELSE /\ reg' = [reg EXCEPT ![t] =
                  [RegIdle EXCEPT !.op = "new", !.key = k, !.seen = FALSE]]
            /\ pc' = [pc EXCEPT ![t] = "ret"]
            /\ h' = [Started(t) EXCEPT !.uncounted[k] = @ + 1,
                                        !.clean[k] = FALSE]
    /\ UNCHANGED <<ENABLE, MAP, local, stores, sameShard, ret>>

\* do_inc: match global.get(&key)
IncGet(t) ==
    /\ pc[t] = "inc_get"
    /\ CanRead(t, reg[t].key)
    /\ IF GlobalGet(reg[t].key) # NoStore
       THEN /\ reg' = [reg EXCEPT ![t].store = GlobalGet(reg[t].key),
                                  ![t].path = "global"]
            /\ pc' = [pc EXCEPT ![t] = "st_total"]
       ELSE /\ reg' = [reg EXCEPT ![t].path = "slow"]
            /\ pc' = [pc EXCEPT ![t] = "inc_entry"]
    /\ UNCHANGED <<ENABLE, MAP, local, stores, sameShard, ret, h>>

\* do_inc, None arm: global.entry(key).or_insert_with(..).downgrade()
IncEntry(t) ==
    /\ pc[t] = "inc_entry"
    /\ CanWrite(t, reg[t].key)
    /\ LET r == OrInsertWith(reg[t].key, StoreNamed(TypeName(reg[t].key)))
       IN /\ MAP' = r.map
          /\ stores' = r.heap
          /\ reg' = [reg EXCEPT ![t].store = r.id]
          /\ h' = [h EXCEPT !.cells[reg[t].key] =
                                 @ + (IF r.made THEN 1 ELSE 0)]
    /\ pc' = [pc EXCEPT ![t] = "st_total"]
    /\ UNCHANGED <<ENABLE, local, sameShard, ret>>

\* Store::inc: self.total.fetch_add(1, Relaxed)
StTotal(t) ==
    /\ pc[t] = "st_total"
    /\ stores' = [stores EXCEPT ![reg[t].store].total = FetchAdd(@, 1)]
    /\ reg' = [reg EXCEPT ![t].dT = @ + 1]
    /\ pc' = [pc EXCEPT ![t] = "st_live"]
    /\ UNCHANGED <<ENABLE, MAP, local, sameShard, ret, h>>

\* Store::inc: let live = self.live.fetch_add(1, Relaxed) + 1
StLive(t) ==
    /\ pc[t] = "st_live"
    /\ stores' = [stores EXCEPT ![reg[t].store].live = FetchAdd(@, 1)]
    /\ reg' = [reg EXCEPT
                  ![t].live = FetchAdd(stores[reg[t].store].live, 1),
                  ![t].dL = @ + 1]
    /\ pc' = [pc EXCEPT ![t] = "st_max"]
    /\ h' = IF reg[t].op = "new"
            THEN [h EXCEPT !.made[t][reg[t].key] = @ + 1,
                           !.trueLive[reg[t].key] = @ + 1,
                           !.peak[reg[t].key] =
                               Max(@, h.trueLive[reg[t].key] + 1),
                           !.nad[reg[t].key] =
                               @ \/ h.gone[reg[t].key] > 0]
            ELSE h
    /\ UNCHANGED <<ENABLE, MAP, local, sameShard, ret>>

\* Store::inc: self.max_live.fetch_max(live, Relaxed); then, back in
\* do_inc on a miss, local.borrow_mut().insert(key, copy).
StMax(t) ==
    /\ pc[t] = "st_max"
    /\ stores' = [stores EXCEPT
                     ![reg[t].store].max_live = FetchMax(@, reg[t].live)]
    /\ reg' = [reg EXCEPT ![t].dM =
                  IF FetchMax(stores[reg[t].store].max_live, reg[t].live)
                         # stores[reg[t].store].max_live
                  THEN 1 ELSE 0]
    /\ local' = IF reg[t].op = "new" /\ reg[t].path # "fast"
                THEN [local EXCEPT ![t][reg[t].key] = reg[t].store]
                ELSE local
    /\ pc' = [pc EXCEPT ![t] = "ret"]
    /\ h' = IF reg[t].op = "new"
            THEN [h EXCEPT !.held[t][reg[t].key] = @ + 1]
            ELSE h
    /\ UNCHANGED <<ENABLE, MAP, sameShard, ret>>

\* ------------------------------------------------- Drop / dec / do_dec
\* Drop for Count<T> -> imp::dec: the enabled() load and, when it is true,
\* the fast-path lookup of do_dec.  The guard dropped is one made by thread
\* o (Count<T> is Send: any thread may drop it), or, with o = 0, one made
\* while counting was disabled.
Drop(t, k, o) ==
    /\ MayStart(t)
    /\ \/ o = 0 /\ h.uncounted[k] > 0
       \/ o \in Threads /\ h.held[o][k] > 0
    /\ LET pool == IF o = 0
                   THEN [Started(t) EXCEPT !.uncounted[k] = @ - 1]
                   ELSE [Started(t) EXCEPT !.held[o][k] = @ - 1,
                                  !.gone[k] = @ + 1,
                                  !.moved[k] = @ \/ o # t]
       IN IF enabled
          THEN /\ reg' = [reg EXCEPT ![t] =
                     [RegIdle EXCEPT !.op = "drop", !.key = k,
                         !.counted = (o # 0),
                         !.store = LocalGet(t, k),
                         !.path = IF LocalGet(t, k) # NoStore
                                  THEN "fast" ELSE "none"]]
               /\ pc' = [pc EXCEPT ![t] =
                     IF LocalGet(t, k) # NoStore THEN "dec_sub" ELSE "dec_get"]
               /\ h' = pool
          ELSE /\ reg' = [reg EXCEPT ![t] =
                     [RegIdle EXCEPT !.op = "drop", !.key = k,
                         !.counted = (o # 0), !.seen = FALSE]]
               /\ pc' = [pc EXCEPT ![t] = "ret"]
               /\ h' = [pool EXCEPT !.clean[k] = FALSE,
                           !.trueLive[k] = IF o # 0 THEN @ - 1 ELSE @]
    /\ UNCHANGED <<ENABLE, MAP, local, stores, sameShard, ret>>

\* do_dec fast path -> Store::dec: self.live.fetch_sub(1, Relaxed)
DecSub(t) ==
    /\ pc[t] = "dec_sub"
    /\ stores' = [stores EXCEPT ![reg[t].store].live = FetchSub(@, 1)]
    /\ reg' = [reg EXCEPT ![t].dL = @ - 1]
    /\ pc' = [pc EXCEPT ![t] = "ret"]
    /\ h' = IF reg[t].counted
            THEN [h EXCEPT !.trueLive[reg[t].key] = @ - 1]
            ELSE h
    /\ UNCHANGED <<ENABLE, MAP, local, sameShard, ret>>

\* do_dec miss path: if let Some(store) = global.get(&key) { insert into
\* LOCAL; store.inc(); return } -- the call at imp.rs:76 is Store::inc, so
\* the thread goes on to the three steps of Store::inc.  With no entry the
\* function falls through and returns.
DecGet(t) ==
    /\ pc[t] = "dec_get"
    /\ CanRead(t, reg[t].key)
    /\ IF GlobalGet(reg[t].key) # NoStore
       THEN /\ reg' = [reg EXCEPT ![t].store = GlobalGet(reg[t].key),
                                  ![t].path = "global"]
            /\ local' = [local EXCEPT
                            ![t][reg[t].key] = GlobalGet(reg[t].key)]
            /\ pc' = [pc EXCEPT ![t] = "st_total"]
       ELSE /\ reg' = [reg EXCEPT ![t].path = "absent"]
            /\ local' = local
            /\ pc' = [pc EXCEPT ![t] = "ret"]
    /\ h' = IF reg[t].counted
            THEN [h EXCEPT !.trueLive[reg[t].key] = @ - 1]
            ELSE h
    /\ UNCHANGED <<ENABLE, MAP, stores, sameShard, ret>>

\* ------------------------------------------------------- get / do_get
\* pub fn get::<T>() is called.
Get(t, k) ==
    /\ MayStart(t)
    /\ reg' = [reg EXCEPT ![t] = [RegIdle EXCEPT !.op = "get", !.key = k]]
    /\ pc' = [pc EXCEPT ![t] = "get_entry"]
    /\ h' = Started(t)
    /\ UNCHANGED <<ENABLE, MAP, local, stores, sameShard, ret>>

\* do_get: global_store().entry(key).or_default()
GetEntry(t) ==
    /\ pc[t] = "get_entry"
    /\ CanWrite(t, reg[t].key)
    /\ LET r == OrInsertWith(reg[t].key, StoreDefault)
       IN /\ MAP' = r.map
          /\ stores' = r.heap
          /\ reg' = [reg EXCEPT ![t].store = r.id]
          /\ h' = [h EXCEPT !.cells[reg[t].key] =
                                 @ + (IF r.made THEN 1 ELSE 0)]
    /\ pc' = [pc EXCEPT ![t] = "rd_total"]
    /\ UNCHANGED <<ENABLE, local, sameShard, ret>>

\* Store::read: total: self.total.load(Relaxed)
RdTotal(t) ==
    /\ pc[t] = "rd_total"
    /\ reg' = [reg EXCEPT ![t].rt = stores[reg[t].store].total]
    /\ pc' = [pc EXCEPT ![t] = "rd_max"]
    /\ UNCHANGED <<ENABLE, MAP, local, stores, sameShard, ret, h>>

\* Store::read: max_live: self.max_live.load(Relaxed)
RdMax(t) ==
    /\ pc[t] = "rd_max"
    /\ reg' = [reg EXCEPT ![t].rm = stores[reg[t].store].max_live]
    /\ pc' = [pc EXCEPT ![t] = "rd_live"]
    /\ UNCHANGED <<ENABLE, MAP, local, stores, sameShard, ret, h>>

\* Store::read: live: self.live.load(Relaxed); the Counts goes to the
\* caller of get, or into the Vec that get_all collects.
RdLive(t) ==
    /\ pc[t] = "rd_live"
    /\ LET c == [total |-> reg[t].rt, max_live |-> reg[t].rm,
                 live |-> stores[reg[t].store].live]
       IN IF reg[t].op = "get"
          THEN /\ ret' = [ret EXCEPT ![t].counts = c]
               /\ reg' = reg
               /\ pc' = [pc EXCEPT ![t] = "ret"]
          ELSE /\ ret' = ret
               /\ reg' = [reg EXCEPT
                     ![t].acc = Append(@, <<stores[reg[t].store].name, c>>),
                     ![t].cursor = @ + 1]
               /\ pc' = [pc EXCEPT ![t] = "all_iter"]
    /\ UNCHANGED <<ENABLE, MAP, local, stores, sameShard, h>>

\* ------------------------------------------------------------ get_all
\* pub fn get_all() is called: global_store().iter()
GetAll(t) ==
    /\ MayStart(t)
    /\ reg' = [reg EXCEPT ![t] =
                  [RegIdle EXCEPT !.op = "get_all", !.cursor = 1]]
    /\ pc' = [pc EXCEPT ![t] = "all_iter"]
    /\ h' = Started(t)
    /\ UNCHANGED <<ENABLE, MAP, local, stores, sameShard, ret>>

\* The iterator moves on: the next key in hash order that has an entry is
\* read (an entry inserted behind the cursor is missed); at the end the Vec
\* is sorted by name and returned.
AllIter(t) ==
    /\ pc[t] = "all_iter"
    /\ IF reg[t].cursor <= Len(TypeOrder)
       THEN LET key == TypeOrder[reg[t].cursor]
            IN /\ CanRead(t, key)
               /\ IF GlobalGet(key) # NoStore
                  THEN /\ reg' = [reg EXCEPT ![t].key = key,
                                             ![t].store = GlobalGet(key)]
                       /\ pc' = [pc EXCEPT ![t] = "rd_total"]
                  ELSE /\ reg' = [reg EXCEPT ![t].cursor = @ + 1]
                       /\ pc' = pc
               /\ ret' = ret
       ELSE /\ ret' = [ret EXCEPT ![t].entries = SortByKey(reg[t].acc)]
            /\ reg' = reg
            /\ pc' = [pc EXCEPT ![t] = "ret"]
    /\ UNCHANGED <<ENABLE, MAP, local, stores, sameShard, h>>

\* ------------------------------------------------------------- return
\* The operation returns to its caller: its locals go out of scope.  At
\* pc "ret" the registers still hold what the operation did.
Return(t) ==
    /\ pc[t] = "ret"
    /\ pc' = [pc EXCEPT ![t] = "idle"]
    /\ reg' = [reg EXCEPT ![t] = RegIdle]
    /\ ret' = [ret EXCEPT ![t] = RetNone]
    /\ UNCHANGED <<ENABLE, MAP, local, stores, sameShard, h>>

\* ------------------------------------------------------ specification
Next ==
    \E t \in Threads :
        \/ \E yes \in BOOLEAN : Enable(t, yes)
        \/ \E k \in Types : New(t, k)
        \/ IncGet(t)
        \/ IncEntry(t)
        \/ StTotal(t)
        \/ StLive(t)
        \/ StMax(t)
        \/ \E k \in Types : \E o \in 0 .. NumThreads : Drop(t, k, o)
        \/ DecSub(t)
        \/ DecGet(t)
        \/ \E k \in Types : Get(t, k)
        \/ GetEntry(t)
        \/ RdTotal(t)
        \/ RdMax(t)
        \/ RdLive(t)
        \/ GetAll(t)
        \/ AllIter(t)
        \/ Return(t)

Spec == Init /\ [][Next]_vars

\* =================================================================
\* Properties
\* =================================================================
\* No operation is in flight.
Quiescent == \A t \in Threads : pc[t] \in {"idle", "ret"}

\* Counted constructions of key that have taken effect, over all threads.
RECURSIVE SumMade(_, _)
SumMade(key, n) == IF n = 0 THEN 0 ELSE h.made[n][key] + SumMade(key, n - 1)

Made(key) == SumMade(key, NumThreads)

\* Counted guards of key that exist, over all threads.
RECURSIVE SumHeld(_, _)
SumHeld(key, n) == IF n = 0 THEN 0 ELSE h.held[n][key] + SumHeld(key, n - 1)

Held(key) == SumHeld(key, NumThreads)

\* Thread t is returning from operation op on key.
Returns(t, op, key) ==
    pc[t] = "ret" /\ reg[t].op = op /\ reg[t].key = key

\* C1: with counting enabled and one thread only, after n constructions of
\* a type followed by k destructions, get returns
\* {total: n, max_live: n, live: n - k}.
C1_SequentialCounts ==
    \A t \in Threads : \A k \in Types :
        (/\ Returns(t, "get", k)
         /\ h.threads \subseteq {t}
         /\ h.clean[k] /\ ~h.nad[k])
        => ret[t].counts = [total |-> h.made[t][k],
                            max_live |-> h.made[t][k],
                            live |-> h.made[t][k] - h.gone[k]]

\* The crate's doc test: three Widgets, one dropped, get is {3, 3, 2}.
C1_Witness ==
    \E k \in Types :
        /\ Returns(1, "get", k)
        /\ h.threads = {1} /\ h.clean[k] /\ ~h.nad[k]
        /\ h.made[1][k] = 3 /\ h.gone[k] = 1
        /\ ret[1].counts = [total |-> 3, max_live |-> 3, live |-> 2]

\* C2: with counting enabled, once all constructions and destructions of a
\* type have completed, max_live is exactly the peak number of guards that
\* were live at once and total is the number of constructions.
C2_PeakAndTotalExact ==
    \A k \in Types :
        (Quiescent /\ h.clean[k] /\ Made(k) > 0)
        => /\ Snapshot(k).total = Made(k)
           /\ Snapshot(k).max_live = h.peak[k]

\* C3: threads that each construct guards of one type and destroy them
\* themselves, counting enabled: when all are done and every guard is
\* destroyed, total is the number of constructions (T*M), live is 0 and
\* 1 <= max_live <= total.
C3_StressCounts ==
    \A k \in Types :
        (/\ Quiescent /\ h.clean[k] /\ ~h.moved[k]
         /\ Made(k) > 0 /\ Held(k) = 0)
        => /\ Snapshot(k).total = Made(k)
           /\ Snapshot(k).live = 0
           /\ 1 <= Snapshot(k).max_live
           /\ Snapshot(k).max_live <= Made(k)

\* Two threads have each constructed and destroyed one guard of the type,
\* overlapping (both were live at once).
C3_Witness ==
    \E k \in Types :
        /\ Quiescent /\ h.clean[k] /\ ~h.moved[k] /\ Held(k) = 0
        /\ h.made[1][k] = 1 /\ h.made[2][k] = 1
        /\ Snapshot(k) = [total |-> 2, max_live |-> 2, live |-> 0]

\* The Arc<Store> a thread has obtained for the key it is incrementing.
InHand(t, key) ==
    /\ reg[t].op = "new" /\ reg[t].key = key
    /\ pc[t] \in StorePcs \cup {"ret"}
    /\ reg[t].seen

\* C4: however many threads race on the first increment of a type, one
\* cell is created for its key, every thread increments and caches that
\* cell, and with counting enabled and no destruction the cell holds
\* total = live = the number of increments once they have completed.
C4_OneCellPerKey ==
    \A k \in Types :
        /\ h.cells[k] <= 1
        /\ \A t \in Threads :
              /\ local[t][k] # NoStore => local[t][k] = MAP[k]
              /\ InHand(t, k) => reg[t].store = MAP[k]
        /\ (Quiescent /\ h.clean[k] /\ h.gone[k] = 0)
           => /\ Snapshot(k).total = Made(k)
              /\ Snapshot(k).live = Made(k)

\* Both threads took the slow path (neither found the key in the registry)
\* for the same unseen type, and both increments have completed.
C4_Witness ==
    \E k \in Types :
        /\ Returns(1, "new", k) /\ reg[1].path = "slow"
        /\ Returns(2, "new", k) /\ reg[2].path = "slow"
        /\ h.cells[k] = 1
        /\ local[1][k] = MAP[k] /\ local[2][k] = MAP[k]
        /\ Snapshot(k).total = 2 /\ Snapshot(k).live = 2

\* C5: a destruction (of a counted guard) that misses the thread's cache
\* and finds the cell in the registry decrements it (live - 1, total
\* unchanged) and leaves the cell in the thread's cache.
C5_MissPathDecrements ==
    \A t \in Threads : \A k \in Types :
        (Returns(t, "drop", k) /\ reg[t].counted /\ reg[t].path = "global")
        => /\ reg[t].dL = -1
           /\ reg[t].dT = 0
           /\ local[t][k] # NoStore /\ local[t][k] = MAP[k]

\* C6: a destruction (of a counted guard) that sees counting enabled, on
\* any thread, has decreased live by exactly 1 and has written neither
\* total nor max_live.
C6_DropOnlyDecrementsLive ==
    \A t \in Threads : \A k \in Types :
        (Returns(t, "drop", k) /\ reg[t].counted /\ reg[t].seen)
        => /\ reg[t].dL = -1
           /\ reg[t].dT = 0
           /\ reg[t].dM = 0

\* Thread t takes a step of a construction or destruction of type key.
StepsOn(t, key) ==
    /\ pc'[t] # pc[t]
    /\ \/ pc[t] # "idle" /\ reg[t].op \in {"new", "drop"} /\ reg[t].key = key
       \/ pc[t] = "idle" /\ reg'[t].op \in {"new", "drop"} /\ reg'[t].key = key

\* C7: no step of a construction (new, default, clone) or destruction of a
\* guard of type A changes what get reads for another type B.
C7_TypesIndependent ==
    [][\A t \in Threads : \A a \in Types : \A b \in Types \ {a} :
          StepsOn(t, a) => Snapshot(b)' = Snapshot(b)]_vars

\* Both types have been counted, and a thread is in the middle of a
\* construction of one of them that has just written the cell.
C7_Witness ==
    \E t \in Threads :
        /\ pc[t] = "st_max" /\ reg[t].op = "new" /\ reg[t].key = 1
        /\ Snapshot(1).total >= 1 /\ Snapshot(2).total >= 1
        /\ Snapshot(1) # Snapshot(2)

\* Thread t starts a construction or a destruction.
StartsGuardOp(t) ==
    pc[t] = "idle" /\ pc'[t] # "idle" /\ reg'[t].op \in {"new", "drop"}

Constructed(key) ==
    \/ Made(key) > 0
    \/ \E u \in Threads : InHand(u, key) /\ reg[u].store # NoStore

\* The names in a get_all result.
Names(entries) == {entries[i][1] : i \in 1 .. Len(entries)}

\* C9: what get_all returns is sorted by name and holds entries only for
\* types that were constructed while counting was enabled; with one thread
\* only, it holds an entry for exactly those types.
C9_GetAllExactlyConstructed ==
    \A t \in Threads :
        (pc[t] = "ret" /\ reg[t].op = "get_all")
        => /\ \A i \in 1 .. Len(ret[t].entries) :
                 \A j \in i .. Len(ret[t].entries) :
                     LexLeq(ret[t].entries[i][1], ret[t].entries[j][1])
           /\ Names(ret[t].entries)
                 \subseteq {TypeName(k) : k \in {x \in Types : Constructed(x)}}
           /\ h.threads \subseteq {t}
              => /\ Len(ret[t].entries)
                       = Cardinality({x \in Types : Made(x) > 0})
                 /\ Names(ret[t].entries)
                       = {TypeName(k) : k \in {x \in Types : Made(x) > 0}}

\* C10: no step takes a live counter from 0 below zero (around to the
\* largest usize), whatever the interleaving of enable calls with
\* constructions and destructions.
C10_LiveNeverWraps ==
    [][\A i \in DOMAIN stores :
          ~(stores[i].live = 0 /\ stores'[i].live = UsizeMod - 1)]_vars

\* C11: with counting enabled, a construction made while another counted
\* guard of the type exists (a clone; Clone, like Default, is Count::new)
\* adds exactly 1 to total and to live, and the destruction of one of the
\* guards while the other still exists takes exactly 1 from live and
\* leaves total alone.
C11_CloneCountsAfresh ==
    \A t \in Threads : \A k \in Types :
        /\ (Returns(t, "new", k) /\ reg[t].seen /\ Held(k) >= 2)
           => reg[t].dT = 1 /\ reg[t].dL = 1
        /\ (/\ Returns(t, "drop", k) /\ reg[t].seen /\ reg[t].counted
            /\ Held(k) >= 1)
           => reg[t].dL = -1 /\ reg[t].dT = 0

\* No construction of key has been started, enabled or not (so no guard of
\* key exists and none was dropped).
NeverConstructed(key) ==
    /\ h.clean[key]
    /\ Made(key) = 0
    /\ \A u \in Threads : ~(reg[u].op = "new" /\ reg[u].key = key)

\* C12: get for a type that has never been constructed returns
\* {total: 0, max_live: 0, live: 0}, whatever the other threads are doing
\* with other types.
C12_UnseenReadsZero ==
    \A t \in Threads : \A k \in Types :
        (Returns(t, "get", k) /\ NeverConstructed(k))
        => ret[t].counts = CountsDefault

\* A get of a never-constructed type returns zeros while the other type
\* has been counted and another thread is in the middle of incrementing it.
C12_Witness ==
    \E t \in Threads : \E u \in Threads \ {t} : \E k \in Types :
        \E b \in Types \ {k} :
            /\ Returns(t, "get", k) /\ NeverConstructed(k)
            /\ ret[t].counts = CountsDefault
            /\ Made(b) > 0
            /\ pc[u] \in StorePcs /\ reg[u].op = "new" /\ reg[u].key = b

\* C13: counting is enabled by default: in the initial state the flag is
\* set, nothing but a call of enable changes it, and so a construction
\* made before any call of enable finds it set and goes on into do_inc to
\* increment its type's counters.
C13_EnabledByDefault ==
    /\ ENABLE = TRUE
    /\ [][/\ ENABLE' # ENABLE => UNCHANGED <<MAP, local, stores, pc, reg, ret, h>>
          /\ \A t \in Threads :
                (StartsGuardOp(t) /\ reg'[t].op = "new" /\ ENABLE)
                => pc'[t] \in {"st_total", "inc_get"}]_vars

\* C14: the thread-local cache is a pure optimisation: with counting
\* enabled, at quiescence every type's counters are those of the
\* cache-less reference (each construction total + 1, live + 1, max_live
\* raised to live; each destruction live - 1): total is the number of
\* constructions, live the number of guards that exist, max_live the peak
\* of live -- whichever thread ran each operation, cache hit or miss.
C14_CacheIsPureOptimisation ==
    \A k \in Types :
        (Quiescent /\ h.clean[k])
        => Snapshot(k) = [total |-> Made(k),
                          max_live |-> h.peak[k],
                          live |-> Held(k)]

\* C15: with counting enabled throughout, in every quiescent state (no
\* increment, decrement or read in flight) every cell satisfies
\* live <= max_live <= total.
C15_QuiescentOrder ==
    \A k \in Types :
        (Quiescent /\ h.clean[k] /\ MAP[k] # NoStore)
        => /\ stores[MAP[k]].live <= stores[MAP[k]].max_live
           /\ stores[MAP[k]].max_live <= stores[MAP[k]].total

\* Both threads have constructed and destroyed a guard of the type, one
\* after the other: at quiescence live < max_live < total.
C15_Witness ==
    \E k \in Types :
        /\ Quiescent /\ h.clean[k] /\ MAP[k] # NoStore
        /\ h.made[1][k] >= 1 /\ h.made[2][k] >= 1
        /\ stores[MAP[k]].live < stores[MAP[k]].max_live
        /\ stores[MAP[k]].max_live < stores[MAP[k]].total

\* The snapshot thread t is returning from get is skewed: its live exceeds
\* its max_live or its total.
Skewed(t) ==
    \/ ret[t].counts.live > ret[t].counts.max_live
    \/ ret[t].counts.live > ret[t].counts.total

\* C16: read is three separate loads (total, then max_live, then live), so
\* the snapshot a get returns is not consistent: a get racing with an
\* increment can return live > max_live and live > total (the witness), and
\* with counting enabled throughout it returns such a snapshot only when
\* another thread has written the cell (constructed the type, or dropped a
\* guard of it made elsewhere) -- never when the caller is alone.
C16_SkewNeedsRace ==
    \A t \in Threads : \A k \in Types :
        (Returns(t, "get", k) /\ h.clean[k] /\ Skewed(t))
        => \/ \E u \in Threads \ {t} : h.made[u][k] > 0
           \/ h.moved[k]

\* A get that loaded total and max_live of a cell holding {1, 1, 1}, then
\* lost the race to another thread's construction, and loaded live = 2: it
\* returns {total: 1, max_live: 1, live: 2}.
C16_Witness ==
    \E t \in Threads : \E u \in Threads \ {t} : \E k \in Types :
        /\ Returns(t, "get", k) /\ h.clean[k] /\ ~h.moved[k]
        /\ h.made[u][k] = 2 /\ h.gone[k] = 0
        /\ ret[t].counts = [total |-> 1, max_live |-> 1, live |-> 2]
        /\ ret[t].counts.live > ret[t].counts.max_live
        /\ ret[t].counts.live > ret[t].counts.total

\* C17: in every step, no cell's total or max_live decreases, and a cell's
\* total changes only by + 1 and only in the total.fetch_add of a
\* construction that saw counting enabled: no destruction, read or enable
\* call changes total.
C17_TotalCountsConstructions ==
    [][\A i \in DOMAIN stores :
          /\ stores'[i].total >= stores[i].total
          /\ stores'[i].max_live >= stores[i].max_live
          /\ stores'[i].total # stores[i].total
             => /\ stores'[i].total = stores[i].total + 1
                /\ \E t \in Threads :
                      /\ pc[t] = "st_total" /\ pc'[t] = "st_live"
                      /\ reg[t].op = "new" /\ reg[t].seen
                      /\ reg[t].store = i]_vars

\* ------------------------------------------------- fair specification
\* A step of thread t inside the operation it has started.  (Starting an
\* operation and calling enable are the caller's choice.)
Step(t) ==
    \/ IncGet(t)
    \/ IncEntry(t)
    \/ StTotal(t)
    \/ StLive(t)
    \/ StMax(t)
    \/ DecSub(t)
    \/ DecGet(t)
    \/ GetEntry(t)
    \/ RdTotal(t)
    \/ RdMax(t)
    \/ RdLive(t)
    \/ AllIter(t)
    \/ Return(t)

\* The caller starts an operation, within the bound of the fair runs.
FairNew(t, k) == h.ops < MaxFairOps /\ New(t, k)

FairDrop(t, k, o) == h.ops < MaxFairOps /\ Drop(t, k, o)

FairGet(t, k) == h.ops < MaxFairOps /\ Get(t, k)

FairGetAll(t) == h.ops < MaxFairOps /\ GetAll(t)

FairNext ==
    \E t \in Threads :
        \/ \E yes \in BOOLEAN : Enable(t, yes)
        \/ \E k \in Types : FairNew(t, k)
        \/ \E k \in Types : \E o \in 0 .. NumThreads : FairDrop(t, k, o)
        \/ \E k \in Types : FairGet(t, k)
        \/ FairGetAll(t)
        \/ Step(t)

\* Fair scheduling: a thread whose next step stays possible (its lock, if
\* it waits for one, stays free) takes it.
FairSpec == Init /\ [][FairNext]_vars /\ \A t \in Threads : WF_vars(Step(t))

AllIdle == \A t \in Threads : pc[t] = "idle"

\* C18: under fair scheduling every started operation (construction,
\* destruction, get, get_all, on the same or on different types) eventually
\* completes, and once the callers start no more the system is quiescent.
C18_EveryOperationCompletes ==
    /\ \A t \in Threads : (pc[t] # "idle") ~> (pc[t] = "idle")
    /\ <>[]AllIdle

\* One thread waits for the write lock of the shard (its get_entry step is
\* not possible) while the other holds a read lock on it inside get_all.
C18_Witness ==
    \E t \in Threads : \E u \in Threads \ {t} :
        /\ pc[t] = "get_entry" /\ ~CanWrite(t, reg[t].key)
        /\ pc[u] \in ReadPcs /\ reg[u].op = "get_all"

\* C19: the cell of every constructed type carries that type's name,
\* whichever operation first touched the type (also when get for the type
\* was called before its first construction), and so the entries get_all
\* returns for constructed types are labelled with their types' names: a
\* get_all of the main thread alone names every constructed type and
\* returns no empty name.
C19_CellsCarryTypeName ==
    /\ \A k \in Types :
          (MAP[k] # NoStore /\ Made(k) > 0)
          => stores[MAP[k]].name = TypeName(k)
    /\ \A t \in Threads :
          (/\ pc[t] = "ret" /\ reg[t].op = "get_all"
           /\ h.threads \subseteq {t}
           /\ \A k \in Types : Made(k) > 0)
          => Names(ret[t].entries) = {TypeName(k) : k \in Types}

====
